---- MODULE Spec2Model ----
(***************************************************************************)
(* Regex-LE sample fixture, src/sample/app.py.                             *)
(*                                                                         *)
(* Two readings of the one source file are modelled:                       *)
(*   - its text, line by line, read by a scanner (the Python lexical       *)
(*     structure: comments, string literals, def and class statements;     *)
(*     and the header's test patterns applied globally), ScanSpec;         *)
(*   - its execution as a Python module: the top-level statements run in   *)
(*     file order and a caller holding the module's namespace calls what   *)
(*     has been bound so far, Spec.                                        *)
(***************************************************************************)
EXTENDS Integers, Sequences, FiniteSets, TLC

(***************************************************************************)
(* The text of the file.  Every non-empty line is one definition, L<n> for *)
(* line n; the empty lines are "" in Lines.  A grave accent cannot be      *)
(* written inside a TLA+ string, so the two on line 2 are written as the   *)
(* character Grave, which occurs nowhere else in the file.                 *)
(***************************************************************************)
Grave == "~"

L1 == "# Sample Python file for Regex-LE testing"
L2 == "# Test patterns: /def\\s+(\\w+)/g, /class\\s+(\\w+)/g, /['\"]([^'\"~]+)['\"~]/g"
L4 == "import os"
L5 == "import json"
L6 == "from typing import List, Dict, Optional"
L7 == "from datetime import datetime"
L9 == "# Function definitions"
L10 == "def calculate_total(items):"
L11 == "    \"\"\"Calculate total price of items.\"\"\""
L12 == "    return sum(item.price for item in items)"
L14 == "def process_user_data(user_id: int) -> Dict:"
L15 == "    \"\"\"Process user data from API.\"\"\""
L16 == "    response = requests.get(f'/api/users/{user_id}')"
L17 == "    return response.json()"
L19 == "async def fetch_data(url: str) -> Optional[str]:"
L20 == "    \"\"\"Async function to fetch data.\"\"\""
L21 == "    async with aiohttp.ClientSession() as session:"
L22 == "        async with session.get(url) as response:"
L23 == "            return await response.text()"
L25 == "# Class definitions"
L26 == "class UserManager:"
L27 == "    \"\"\"Manages user operations.\"\"\""
L28 == "    "
\* Line 29 without its indentation: __init__ as a top-level function.
L29_dedented == "def __init__(self, name: str, email: str):"
L29 == "    def __init__(self, name: str, email: str):"
L30 == "        self.name = name"
L31 == "        self.email = email"
L32 == "        self.created_at = datetime.now()"
L33 == "    "
L34 == "    def get_name(self) -> str:"
L35 == "        \"\"\"Get user name.\"\"\""
L36 == "        return self.name"
\* Line 38 indented: DatabaseConnection nested in UserManager.
L38_nested == "    class DatabaseConnection:"
L38 == "class DatabaseConnection:"
L39 == "    \"\"\"Handles database connections.\"\"\""
L40 == "    "
L41 == "    def connect(self):"
L42 == "        \"\"\"Connect to database.\"\"\""
L43 == "        pass"
L45 == "# String values"
L46 == "welcome_message = 'Welcome to the application'"
L47 == "api_url = \"https://api.example.com/v1\""
L48 == "template = f\"Hello, {name}!\""
L50 == "# Numbers"
L51 == "MAX_USERS = 1000"
\* Line 52 with another version string.
L52_bumped == "api_version = '2.0.2'"
L52 == "api_version = '2.0.1'"
L53 == "user_ids = [101, 102, 103, 204, 305]"
L55 == "# Regex patterns"
L56 == "email_pattern = r'\\b[A-Za-z0-9._%+-]+@[A-Za-z0-9.-]+\\.[A-Z|a-z]{2,}\\b'"
L57 == "phone_pattern = r'^\\+?[\\d\\s\\-\\(\\)]+$'"
L59 == "# Configuration"
L60 == "config = {"
L61 == "    'static_path': './static',"
L62 == "    'asset_path': '/assets/images',"
L63 == "    'data_path': '../data/records.json'"
L64 == "}"
L66 == "# Comments"
L67 == "# TODO: Refactor authentication"
L68 == "# FIXME: Handle edge case"
L69 == "# NOTE: Needs optimization"

Lines ==
  <<
    L1, L2, "", L4, L5, L6, L7, "",
    L9, L10, L11, L12, "", L14, L15, L16,
    L17, "", L19, L20, L21, L22, L23, "",
    L25, L26, L27, L28, L29, L30, L31, L32,
    L33, L34, L35, L36, "", L38, L39, L40,
    L41, L42, L43, "", L45, L46, L47, L48,
    "", L50, L51, L52, L53, "", L55, L56,
    L57, "", L59, L60, L61, L62, L63, L64,
    "", L66, L67, L68, L69
  >>

RECURSIVE JoinLines(_)
JoinLines(ls) ==
  IF ls = <<>> THEN "" ELSE Head(ls) \o "\n" \o JoinLines(Tail(ls))

\* The whole file: every line followed by its line feed.
Text == JoinLines(Lines)

N == Len(Text)

\* The character at position p (1-based); "" before the start and past the end.
Ch(p) == IF p \in 1..N THEN SubSeq(Text, p, p) ELSE ""

\* The characters at positions a..b; "" when the range is empty or leaves the text.
Slice(a, b) == IF 1 <= a /\ a <= b /\ b <= N THEN SubSeq(Text, a, b) ELSE ""

Lower ==
  {"a","b","c","d","e","f","g","h","i","j","k","l","m",
   "n","o","p","q","r","s","t","u","v","w","x","y","z"}

Upper ==
  {"A","B","C","D","E","F","G","H","I","J","K","L","M",
   "N","O","P","Q","R","S","T","U","V","W","X","Y","Z"}

Digit == {"0","1","2","3","4","5","6","7","8","9"}

\* The first position at or after p whose character is not in S.
RECURSIVE RunEnd(_, _)
RunEnd(p, S) == IF Ch(p) \in S THEN RunEnd(p + 1, S) ELSE p

(***************************************************************************)
(* The header's test patterns (line 2), /def\s+(\w+)/g and                 *)
(* /class\s+(\w+)/g: a literal keyword, a greedy run of one or more white  *)
(* space characters, a captured greedy run of one or more word characters. *)
(* Neither run can give a character back to what follows it, so a match at *)
(* p is decided without backtracking.                                      *)
(***************************************************************************)
\* \w without the underscore.
RegexWordNoUnderscore == Lower \cup Upper \cup Digit

RegexWord == Lower \cup Upper \cup Digit \cup {"_"}

RegexSpace == {" ", "\t", "\n", "\r", "\f"}

Patterns == {"def", "class"}

RegexMatch(kw, p) ==
  LET a == p + Len(kw)
      b == RunEnd(a, RegexSpace)
      c == RunEnd(b, RegexWord)
  IN  [ok      |-> Slice(p, a - 1) = kw /\ b > a /\ c > b,
       capture |-> Slice(b, c - 1),
       end     |-> c]

(***************************************************************************)
(* Python's reading of the same text: a comment runs from # to the end of  *)
(* its line; a string literal is delimited by one quote character or by    *)
(* three, and a backslash inside it takes the next character with it; a    *)
(* def or class statement is the keyword as the first word of a line (def  *)
(* also after async), then blanks, then the name.                          *)
(***************************************************************************)
Quotes == {"'", "\""}

Blank == {" ", "\t"}

IdentStart == Lower \cup Upper \cup {"_"}

IdentCh == IdentStart \cup Digit

Keywords == {"def", "class"}

\* What may stand between a line's indentation and the keyword.
DefPrefixes(kw) == IF kw = "def" THEN {"", "async"} ELSE {""}

\* The statement that starts with keyword kw at position p of a line that
\* starts at position ls, if there is one.
Statement(kw, p, ls) ==
  LET first  == RunEnd(ls, Blank)
      a      == p + Len(kw)
      b      == RunEnd(a, Blank)
      c      == RunEnd(b, IdentCh)
      lead   == IF first = p THEN ""
                ELSE LET w == RunEnd(first, IdentCh)
                     IN  IF w > first /\ w < p /\ RunEnd(w, Blank) = p
                         THEN Slice(first, w - 1) ELSE "?"
  IN  [ok     |-> /\ Slice(p, a - 1) = kw
                  /\ lead \in DefPrefixes(kw)
                  /\ b > a
                  /\ Ch(b) \in IdentStart,
       name   |-> Slice(b, c - 1),
       indent |-> first - ls]

VARIABLES
  pos,        \* scanner: the position of the next character to read
  line,       \* scanner: the line number of pos
  lineStart,  \* scanner: the position at which that line starts
  mode,       \* lexer: "code", "comment" or "string"
  quote,      \* lexer: the quote character that opened the string
  triple,     \* lexer: whether the string is triple-quoted
  esc,        \* lexer: whether the previous character was an escaping backslash
  skip,       \* lexer: how many more characters belong to a three-quote delimiter
  buf,        \* lexer: the content of the string read so far
  literals,   \* lexer: the contents of the string literals closed so far
  decls,      \* lexer: the def and class statements met so far, in order
  lastIndex,  \* per pattern: the position at which the next match may start
  matches     \* per pattern: the matches so far, in order

scanVars ==
  <<pos, line, lineStart, mode, quote, triple, esc, skip, buf, literals,
    decls, lastIndex, matches>>

ScanInit ==
  /\ pos = 1
  /\ line = 1
  /\ lineStart = 1
  /\ mode = "code"
  /\ quote = ""
  /\ triple = FALSE
  /\ esc = FALSE
  /\ skip = 0
  /\ buf = ""
  /\ literals = {}
  /\ decls = <<>>
  /\ lastIndex = [r \in Patterns |-> 1]
  /\ matches = [r \in Patterns |-> <<>>]

\* The scanner moves one character on, counting lines.
Advance ==
  /\ pos' = pos + 1
  /\ line' = IF Ch(pos) = "\n" THEN line + 1 ELSE line
  /\ lineStart' = IF Ch(pos) = "\n" THEN pos + 1 ELSE lineStart

\* Global matching: a pattern is tried at every position from its lastIndex
\* on, and a match moves its lastIndex to the end of the match.
Observe ==
  /\ matches' =
       [r \in Patterns |->
          IF pos >= lastIndex[r] /\ RegexMatch(r, pos).ok
          THEN Append(matches[r],
                      [capture |-> RegexMatch(r, pos).capture,
                       line |-> line, mode |-> mode])
          ELSE matches[r]]
  /\ lastIndex' =
       [r \in Patterns |->
          IF pos >= lastIndex[r] /\ RegexMatch(r, pos).ok
          THEN RegexMatch(r, pos).end
          ELSE lastIndex[r]]

\* The keyword, if any, whose statement starts at pos.
StatementAt ==
  {kw \in Keywords : Ch(pos - 1) \notin IdentCh /\ Statement(kw, pos, lineStart).ok}

ScanCode ==
  /\ pos <= N
  /\ skip = 0
  /\ mode = "code"
  /\ Advance
  /\ Observe
  /\ mode' = IF Ch(pos) = "#" THEN "comment"
             ELSE IF Ch(pos) \in Quotes THEN "string"
             ELSE "code"
  /\ quote' = IF Ch(pos) \in Quotes THEN Ch(pos) ELSE quote
  /\ triple' = IF Ch(pos) \in Quotes
               THEN Ch(pos + 1) = Ch(pos) /\ Ch(pos + 2) = Ch(pos)
               ELSE triple
  /\ skip' = IF Ch(pos) \in Quotes /\ Ch(pos + 1) = Ch(pos) /\ Ch(pos + 2) = Ch(pos)
             THEN 2 ELSE 0
  /\ buf' = IF Ch(pos) \in Quotes THEN "" ELSE buf
  /\ decls' = IF StatementAt = {} THEN decls
              ELSE LET kw == CHOOSE k \in StatementAt : TRUE
                       st == Statement(kw, pos, lineStart)
                   IN  Append(decls, [kind |-> kw, name |-> st.name,
                                      indent |-> st.indent, line |-> line])
  /\ UNCHANGED <<esc, literals>>

ScanComment ==
  /\ pos <= N
  /\ mode = "comment"
  /\ Advance
  /\ Observe
  /\ mode' = IF Ch(pos) = "\n" THEN "code" ELSE "comment"
  /\ UNCHANGED <<quote, triple, esc, skip, buf, literals, decls>>

\* Whether the string's closing delimiter starts at pos.
Closes ==
  /\ ~esc
  /\ Ch(pos) = quote
  /\ triple => Ch(pos + 1) = quote /\ Ch(pos + 2) = quote

ScanString ==
  /\ pos <= N
  /\ skip = 0
  /\ mode = "string"
  /\ Advance
  /\ Observe
  /\ mode' = IF Closes THEN "code" ELSE "string"
  /\ skip' = IF Closes /\ triple THEN 2 ELSE 0
  /\ literals' = IF Closes THEN literals \cup {buf} ELSE literals
  /\ buf' = IF Closes THEN buf ELSE buf \o Ch(pos)
  /\ esc' = (~esc /\ Ch(pos) = "\\")
  /\ UNCHANGED <<quote, triple, decls>>

\* The second and third quote of a three-quote delimiter.
ScanDelim ==
  /\ pos <= N
  /\ skip > 0
  /\ Advance
  /\ Observe
  /\ skip' = skip - 1
  /\ UNCHANGED <<mode, quote, triple, esc, buf, literals, decls>>

(***************************************************************************)
(* The file as a Python module.  Each top-level statement is one record:   *)
(* the line it starts on, the names it binds in the module's namespace,    *)
(* the global names it reads when it executes (reads), and those only its  *)
(* annotations read (annot), in evaluation order.                          *)
(***************************************************************************)
import_os == [line |-> 4, kind |-> "import", binds |-> {"os"},
              reads |-> <<>>, annot |-> <<>>]

\* The import the file does not have.
import_requests == [line |-> 5, kind |-> "import", binds |-> {"requests"},
                    reads |-> <<>>, annot |-> <<>>]

import_json == [line |-> 5, kind |-> "import", binds |-> {"json"},
                reads |-> <<>>, annot |-> <<>>]

from_typing == [line |-> 6, kind |-> "import", binds |-> {"List", "Dict", "Optional"},
                reads |-> <<>>, annot |-> <<>>]

from_datetime == [line |-> 7, kind |-> "import", binds |-> {"datetime"},
                  reads |-> <<>>, annot |-> <<>>]

def_calculate_total == [line |-> 10, kind |-> "def", binds |-> {"calculate_total"},
                        reads |-> <<>>, annot |-> <<>>]

def_process_user_data == [line |-> 14, kind |-> "def", binds |-> {"process_user_data"},
                          reads |-> <<>>, annot |-> <<"int", "Dict">>]

def_fetch_data == [line |-> 19, kind |-> "def", binds |-> {"fetch_data"},
                   reads |-> <<>>, annot |-> <<"str", "Optional", "str">>]

\* A class body starts by reading __name__ (for __module__); then its defs run.
class_UserManager == [line |-> 26, kind |-> "class", binds |-> {"UserManager"},
                      reads |-> <<"__name__">>, annot |-> <<"str", "str", "str">>]

class_DatabaseConnection == [line |-> 38, kind |-> "class",
                             binds |-> {"DatabaseConnection"},
                             reads |-> <<"__name__">>, annot |-> <<>>]

assign_welcome_message == [line |-> 46, kind |-> "assign", binds |-> {"welcome_message"},
                           reads |-> <<>>, annot |-> <<>>]

assign_api_url == [line |-> 47, kind |-> "assign", binds |-> {"api_url"},
                   reads |-> <<>>, annot |-> <<>>]

\* Line 48 as a plain string: it reads no name.
assign_template_plain == [line |-> 48, kind |-> "assign", binds |-> {"template"},
                          reads |-> <<>>, annot |-> <<>>]

\* Line 48 with a replacement field that reads welcome_message.
assign_template_welcome == [line |-> 48, kind |-> "assign", binds |-> {"template"},
                            reads |-> <<"welcome_message">>, annot |-> <<>>]

\* An f-string: its replacement field reads the name `name`.
assign_template == [line |-> 48, kind |-> "assign", binds |-> {"template"},
                    reads |-> <<"name">>, annot |-> <<>>]

assign_MAX_USERS == [line |-> 51, kind |-> "assign", binds |-> {"MAX_USERS"},
                     reads |-> <<>>, annot |-> <<>>]

assign_api_version == [line |-> 52, kind |-> "assign", binds |-> {"api_version"},
                       reads |-> <<>>, annot |-> <<>>]

assign_user_ids == [line |-> 53, kind |-> "assign", binds |-> {"user_ids"},
                    reads |-> <<>>, annot |-> <<>>]

assign_email_pattern == [line |-> 56, kind |-> "assign", binds |-> {"email_pattern"},
                         reads |-> <<>>, annot |-> <<>>]

assign_phone_pattern == [line |-> 57, kind |-> "assign", binds |-> {"phone_pattern"},
                         reads |-> <<>>, annot |-> <<>>]

assign_config == [line |-> 60, kind |-> "assign", binds |-> {"config"},
                  reads |-> <<>>, annot |-> <<>>]

Module ==
  <<import_os, import_json, from_typing, from_datetime,
    def_calculate_total, def_process_user_data, def_fetch_data,
    class_UserManager, class_DatabaseConnection,
    assign_welcome_message, assign_api_url, assign_template,
    assign_MAX_USERS, assign_api_version, assign_user_ids,
    assign_email_pattern, assign_phone_pattern, assign_config>>

\* The names the interpreter puts in a module's namespace before its first
\* statement runs; binder line 0.
ModuleDunders == {"__name__", "__doc__", "__package__", "__loader__", "__spec__",
                  "__builtins__"}

\* The built-in names the file reads.  None of name, requests, aiohttp is built in.
Builtins == {"int", "str", "sum"}

\* Name lookup from module level or from a function body: the module's
\* namespace, then the builtins, else NameError.
Resolve(g, n) ==
  IF n \in DOMAIN g THEN "global" ELSE IF n \in Builtins THEN "builtin" ELSE "unbound"

\* The first of the names ns (in order) that does not resolve; "" if all do.
RECURSIVE FirstUnbound(_, _)
FirstUnbound(g, ns) ==
  IF ns = <<>> THEN ""
  ELSE IF Resolve(g, Head(ns)) = "unbound" THEN Head(ns)
  ELSE FirstUnbound(g, Tail(ns))

Range(s) == {s[i] : i \in DOMAIN s}

\* The uses code unit `by` makes of names the file itself bound: each name it
\* read that resolved to a binding made by a statement of the file.
UsesOf(g, by, ns) ==
  {[by |-> by, name |-> n, binder |-> g[n]] :
     n \in {m \in Range(ns) : m \in DOMAIN g /\ g[m] > 0}}

\* The prefix of ns that is read before the first unbound name stops the reading.
RECURSIVE ReadsDone(_, _)
ReadsDone(g, ns) ==
  IF ns = <<>> \/ Resolve(g, Head(ns)) = "unbound" THEN <<>>
  ELSE <<Head(ns)>> \o ReadsDone(g, Tail(ns))

(***************************************************************************)
(* The function bodies.  Each operator gives what one run of the body      *)
(* does: how it ends (kind: "return" of an expression, "raise", or         *)
(* "fallthrough" off the end of the body), the exception and the name it   *)
(* is about, the value returned (num or text), the global names read, the  *)
(* attributes stored on self, and the module's namespace as the run leaves *)
(* it (globals).  A body that is handed a mutable object also gives the    *)
(* object as the run leaves it.                                            *)
(***************************************************************************)
Outcome(g) ==
  [kind |-> "fallthrough", exc |-> "", name |-> "", num |-> 0, text |-> "",
   reads |-> <<>>, stores |-> {}, globals |-> g]

NameError(g, n, readsBefore) ==
  [Outcome(g) EXCEPT !.kind = "raise", !.exc = "NameError", !.name = n,
                     !.reads = readsBefore]

MaxItems == 2

Prices == {-1, 0, 2}

Item == [price : Prices]

ItemLists == UNION {[1..n -> Item] : n \in 0..MaxItems}

\* The builtin sum over an iterable of numbers: from 0, front to back.
RECURSIVE sum(_)
sum(xs) == IF xs = <<>> THEN 0 ELSE
             LET n == Len(xs) IN sum(SubSeq(xs, 1, n - 1)) + xs[n]

\*  return sum(item.price for item in items)
\* sum over a set comprehension: equal prices are counted once.
calculate_total_set(g, items) ==
  [out   |-> [Outcome(g) EXCEPT
                !.kind = "return",
                !.num = LET ps == {items[i].price : i \in 1..Len(items)}
                            f[S \in SUBSET ps] ==
                              IF S = {} THEN 0
                              ELSE LET x == CHOOSE y \in S : TRUE
                                   IN  x + f[S \ {x}]
                        IN  f[ps],
                !.reads = <<"sum">>],
   items |-> items]

\* items is the list object the run leaves behind.
calculate_total(g, items) ==
  [out   |-> IF Resolve(g, "sum") = "unbound" THEN NameError(g, "sum", <<>>)
             ELSE [Outcome(g) EXCEPT
                     !.kind = "return",
                     !.num = sum([i \in 1..Len(items) |-> items[i].price]),
                     !.reads = <<"sum">>],
   items |-> items]

UserIds == {7, 42}

\*  response = requests.get(f'/api/users/{user_id}')
\*  return response.json()
process_user_data(g, user_id) ==
  IF Resolve(g, "requests") = "unbound" THEN NameError(g, "requests", <<>>)
  ELSE [Outcome(g) EXCEPT !.kind = "return", !.text = "response.json()",
                          !.reads = <<"requests">>]

Urls == {"http://a/", "http://b/"}

\*  async with aiohttp.ClientSession() as session:
\*      async with session.get(url) as response:
\*          return await response.text()
fetch_data(g, url) ==
  IF Resolve(g, "aiohttp") = "unbound" THEN NameError(g, "aiohttp", <<>>)
  ELSE [Outcome(g) EXCEPT !.kind = "return", !.text = "response.text()",
                          !.reads = <<"aiohttp">>]

UserNames == {"ann", "bob"}

Emails == {"ann@example.com"}

\* The values datetime.now() may give.
Times == {"t1", "t2"}

\* Object o with attribute a set to v.
SetAttr(o, a, v) ==
  [x \in DOMAIN o \cup {a} |-> IF x = a THEN v ELSE o[x]]

\* A new object: no instance attributes.
NoAttrs == [x \in {} |-> ""]

\* __init__ without the assignment of created_at.
UserManager__init__no_timestamp(g, self, name, email, now) ==
  [out  |-> [Outcome(g) EXCEPT !.stores = {"name", "email"}],
   self |-> SetAttr(SetAttr(self, "name", name), "email", email)]

\*  self.name = name; self.email = email; self.created_at = datetime.now()
\* self is the heap object the run leaves behind.
UserManager__init__(g, self, name, email, now) ==
  LET s1 == SetAttr(self, "name", name)
      s2 == SetAttr(s1, "email", email)
      s3 == SetAttr(s2, "created_at", now)
  IN  IF Resolve(g, "datetime") = "unbound"
      THEN [out  |-> [NameError(g, "datetime", <<>>) EXCEPT !.stores = {"name", "email"}],
            self |-> s2]
      ELSE [out  |-> [Outcome(g) EXCEPT !.reads = <<"datetime">>,
                                        !.stores = {"name", "email", "created_at"}],
            self |-> s3]

\*  return self.name
get_name(g, self) ==
  [out  |-> IF "name" \in DOMAIN self
            THEN [Outcome(g) EXCEPT !.kind = "return", !.text = self["name"]]
            ELSE [Outcome(g) EXCEPT !.kind = "raise", !.exc = "AttributeError",
                                    !.name = "name"],
   self |-> self]

\* connect that records the connection on self.
connect_flag(g, self) ==
  [out  |-> [Outcome(g) EXCEPT !.stores = {"connected"}],
   self |-> SetAttr(self, "connected", "True")]

\*  pass
connect(g, self) == [out |-> Outcome(g), self |-> self]

VARIABLES
  lazyAnnotations, \* whether annotations are evaluated lazily (Python 3.14 on)
                   \* or when the def statement executes (before 3.14)
  pc,              \* module execution: the index in Module of the next statement
  status,          \* module execution: "running", "done" or "error"
  error,           \* module execution: the exception that stopped it
  globals,         \* the module's namespace: name -> line of the binding statement
  uses,            \* every read, by code of the file, of a name the file bound
  obj,             \* the caller's latest instance of a class of the file
  coro,            \* the caller's latest coroutine of fetch_data
  last             \* the latest run of a function body of the file

execVars == <<lazyAnnotations, pc, status, error, globals, uses, obj, coro, last>>

vars == <<scanVars, execVars>>

NoCall ==
  [fn |-> "", out |-> Outcome([n \in ModuleDunders |-> 0]),
   pre |-> [n \in ModuleDunders |-> 0],
   items |-> <<>>, heap |-> <<>>, user_id |-> 0, url |-> ""]

ExecStart ==
  /\ pc = 1
  /\ status = "running"
  /\ error = [exc |-> "", name |-> "", line |-> 0]
  /\ globals = [n \in ModuleDunders |-> 0]
  /\ uses = {}
  /\ obj = [cls |-> "", attrs |-> NoAttrs]
  /\ coro = [state |-> "none", url |-> ""]
  /\ last = NoCall

\* The names statement s reads when it executes.
ReadsOf(s) == IF lazyAnnotations THEN s.reads ELSE s.reads \o s.annot

\* A top-level statement executes: its names resolve, it binds what it binds.
ExecStatement ==
  /\ status = "running"
  /\ LET s == Module[pc] IN
       /\ FirstUnbound(globals, ReadsOf(s)) = ""
       /\ globals' = [n \in DOMAIN globals \cup s.binds |->
                        IF n \in s.binds THEN s.line ELSE globals[n]]
       /\ uses' = uses \cup UsesOf(globals, [line |-> s.line, at |-> "definition"],
                                   ReadsOf(s))
  /\ pc' = pc + 1
  /\ status' = IF pc = Len(Module) THEN "done" ELSE "running"
  /\ UNCHANGED <<lazyAnnotations, error, obj, coro, last, scanVars>>

\* A top-level statement reads an unbound name: the module's execution ends
\* there, and the statement binds nothing.
RaiseNameError ==
  /\ status = "running"
  /\ LET s == Module[pc] IN
       /\ FirstUnbound(globals, ReadsOf(s)) # ""
       /\ error' = [exc |-> "NameError", name |-> FirstUnbound(globals, ReadsOf(s)),
                    line |-> s.line]
       /\ uses' = uses \cup UsesOf(globals, [line |-> s.line, at |-> "definition"],
                                   ReadsDone(globals, ReadsOf(s)))
  /\ status' = "error"
  /\ UNCHANGED <<lazyAnnotations, pc, globals, obj, coro, last, scanVars>>

\* What a run of the body defined at line defLine leaves in uses and last.
Ran(fn, defLine, out, rec) ==
  /\ uses' = uses \cup UsesOf(globals, [line |-> defLine, at |-> "call"], out.reads)
  /\ globals' = out.globals
  /\ last' = [rec EXCEPT !.fn = fn, !.out = out, !.pre = globals]

\* A caller that holds the module's namespace calls what is bound in it.
CallCalculateTotal ==
  /\ "calculate_total" \in DOMAIN globals
  /\ \E items \in ItemLists :
       LET r == calculate_total(globals, items)
       IN  Ran("calculate_total", globals["calculate_total"], r.out,
               [NoCall EXCEPT !.items = items, !.heap = r.items])
  /\ UNCHANGED <<lazyAnnotations, pc, status, error, obj, coro, scanVars>>

CallProcessUserData ==
  /\ "process_user_data" \in DOMAIN globals
  /\ \E user_id \in UserIds :
       Ran("process_user_data", globals["process_user_data"],
           process_user_data(globals, user_id), [NoCall EXCEPT !.user_id = user_id])
  /\ UNCHANGED <<lazyAnnotations, pc, status, error, obj, coro, scanVars>>

\* Calling an async def runs none of its body: it gives a coroutine.
CallFetchData ==
  /\ "fetch_data" \in DOMAIN globals
  /\ \E url \in Urls : coro' = [state |-> "created", url |-> url]
  /\ UNCHANGED <<lazyAnnotations, pc, status, error, globals, uses, obj, last, scanVars>>

\* The coroutine is run (awaited, or driven by an event loop): the body runs.
RunCoroutine ==
  /\ coro.state = "created"
  /\ LET out == fetch_data(globals, coro.url) IN
       /\ Ran("fetch_data", globals["fetch_data"], out, [NoCall EXCEPT !.url = coro.url])
       /\ coro' = [coro EXCEPT !.state = IF out.kind = "raise" THEN "failed"
                                         ELSE "finished"]
  /\ UNCHANGED <<lazyAnnotations, pc, status, error, obj, scanVars>>

\* UserManager(name, email): a new object, then __init__ on it.  The caller
\* gets the object only if __init__ does not raise.
NewUserManager ==
  /\ "UserManager" \in DOMAIN globals
  /\ \E name \in UserNames, email \in Emails, now \in Times :
       LET r == UserManager__init__(globals, NoAttrs, name, email, now) IN
         /\ Ran("__init__", globals["UserManager"], r.out, NoCall)
         /\ obj' = IF r.out.kind = "raise" THEN obj
                   ELSE [cls |-> "UserManager", attrs |-> r.self]
  /\ UNCHANGED <<lazyAnnotations, pc, status, error, coro, scanVars>>

\* DatabaseConnection(): the class defines no __init__, so no body of the
\* file runs and the new object has no instance attributes.
NewDatabaseConnection ==
  /\ "DatabaseConnection" \in DOMAIN globals
  /\ obj' = [cls |-> "DatabaseConnection", attrs |-> NoAttrs]
  /\ UNCHANGED <<lazyAnnotations, pc, status, error, globals, uses, coro, last, scanVars>>

CallGetName ==
  /\ obj.cls = "UserManager"
  /\ LET r == get_name(globals, obj.attrs) IN
       /\ Ran("get_name", globals["UserManager"], r.out, NoCall)
       /\ obj' = [obj EXCEPT !.attrs = r.self]
  /\ UNCHANGED <<lazyAnnotations, pc, status, error, coro, scanVars>>

CallConnect ==
  /\ obj.cls = "DatabaseConnection"
  /\ LET r == connect(globals, obj.attrs) IN
       /\ Ran("connect", globals["DatabaseConnection"], r.out, NoCall)
       /\ obj' = [obj EXCEPT !.attrs = r.self]
  /\ UNCHANGED <<lazyAnnotations, pc, status, error, coro, scanVars>>

Init == ScanInit /\ ExecStart /\ lazyAnnotations \in BOOLEAN

Next ==
  \/ ExecStatement
  \/ RaiseNameError
  \/ CallCalculateTotal
  \/ CallProcessUserData
  \/ CallFetchData
  \/ RunCoroutine
  \/ NewUserManager
  \/ NewDatabaseConnection
  \/ CallGetName
  \/ CallConnect

\* The module's execution and its callers.
Spec == Init /\ [][Next]_vars

ScanStart == ScanInit /\ ExecStart /\ lazyAnnotations = FALSE

ScanNext ==
  \/ ScanCode /\ UNCHANGED execVars
  \/ ScanComment /\ UNCHANGED execVars
  \/ ScanString /\ UNCHANGED execVars
  \/ ScanDelim /\ UNCHANGED execVars

\* The scanner's pass over the text.
ScanSpec == ScanStart /\ [][ScanNext]_vars

ScanDone == pos = N + 1

(***************************************************************************)
(* The properties.                                                         *)
(***************************************************************************)
IsPrefix(s, t) == Len(s) <= Len(t) /\ s = SubSeq(t, 1, Len(s))

NamesOf(ds) == [i \in 1..Len(ds) |-> ds[i].name]

IsTopLevelDef(d) == d.kind = "def" /\ d.indent = 0

IsTopLevelClass(d) == d.kind = "class" /\ d.indent = 0

IsClass(d) == d.kind = "class"

TopLevelFunctions == NamesOf(SelectSeq(decls, IsTopLevelDef))

TopLevelClasses == NamesOf(SelectSeq(decls, IsTopLevelClass))

AllClasses == NamesOf(SelectSeq(decls, IsClass))

\* C1: read from the first line to the last, the functions defined at top
\* level (def or async def at column 0) are calculate_total,
\* process_user_data, fetch_data, in that order, and no other: at every point
\* of the scan the top-level functions met so far are a prefix of that
\* sequence, and at the end they are all of it.
C1_TopLevelFunctions ==
  /\ IsPrefix(TopLevelFunctions,
              <<"calculate_total", "process_user_data", "fetch_data">>)
  /\ ScanDone =>
       TopLevelFunctions = <<"calculate_total", "process_user_data", "fetch_data">>

C1_Witness == ScanDone /\ Len(TopLevelFunctions) = 3 /\ Len(decls) = 8

\* C2: read from the first line to the last, the classes defined at top level
\* are UserManager, DatabaseConnection, in that order, and the file has no
\* other class definition (none is nested).
C2_TopLevelClasses ==
  /\ IsPrefix(TopLevelClasses, <<"UserManager", "DatabaseConnection">>)
  /\ AllClasses = TopLevelClasses
  /\ ScanDone => TopLevelClasses = <<"UserManager", "DatabaseConnection">>

C2_Witness == ScanDone /\ Len(AllClasses) = 2

\* C3: each of the six strings is the complete content of one quoted string
\* literal of the file.
C3_StringLiterals ==
  ScanDone =>
    {"Welcome to the application", "https://api.example.com/v1", "2.0.1",
     "./static", "/assets/images", "../data/records.json"} \subseteq literals

C3_Witness == ScanDone /\ mode = "code" /\ "2.0.1" \in literals

CapturesOf(r) == [i \in 1..Len(matches[r]) |-> matches[r][i].capture]

\* C10: applied globally to the whole text, def\s+(\w+) captures
\* calculate_total, process_user_data, fetch_data, __init__, get_name,
\* connect, in that order and nothing else, and class\s+(\w+) captures
\* UserManager then DatabaseConnection and nothing else; no match starts in a
\* comment or in a string literal (a docstring).
C10_HeaderPatterns ==
  /\ IsPrefix(CapturesOf("def"),
              <<"calculate_total", "process_user_data", "fetch_data",
                "__init__", "get_name", "connect">>)
  /\ IsPrefix(CapturesOf("class"), <<"UserManager", "DatabaseConnection">>)
  /\ \A r \in Patterns : \A i \in 1..Len(matches[r]) : matches[r][i].mode = "code"
  /\ ScanDone =>
       /\ CapturesOf("def") =
            <<"calculate_total", "process_user_data", "fetch_data",
              "__init__", "get_name", "connect">>
       /\ CapturesOf("class") = <<"UserManager", "DatabaseConnection">>

C10_Witness == ScanDone /\ Len(matches["def"]) = 6 /\ Len(matches["class"]) = 2

ReturnsExpression(o) == o.kind = "return"

UnimplementedStub(o) == o.kind = "fallthrough" /\ o.stores = {}

CallsUndefinedName(o) == o.kind = "raise" /\ o.exc = "NameError"

OneOfThreeKinds(o) ==
  ReturnsExpression(o) \/ UnimplementedStub(o) \/ CallsUndefinedName(o)

\* C4 as stated: every function body of the file (the three top-level
\* functions and the methods __init__, get_name and connect) returns an
\* expression, is an unimplemented stub, or calls an undefined name.
C4_Original == last.fn # "" => OneOfThreeKinds(last.out)

\* C4, amended: every function body of the file other than
\* UserManager.__init__ is of one of the three kinds; __init__ is of none: it
\* stores name, email and created_at on self and returns no expression.
C4_FunctionBodyKinds ==
  /\ last.fn \in {"calculate_total", "process_user_data", "fetch_data",
                  "get_name", "connect"} => OneOfThreeKinds(last.out)
  /\ last.fn = "__init__" =>
       /\ ~OneOfThreeKinds(last.out)
       /\ last.out.kind = "fallthrough"
       /\ last.out.stores = {"name", "email", "created_at"}

C4_Witness ==
  /\ last.fn = "__init__"
  /\ last.out.stores = {"name", "email", "created_at"}
  /\ obj.cls = "UserManager"

\* C5 as stated: no declaration of the file is used by other code of the
\* file: no code of the file reads a name that a statement of the file bound;
\* fetch_data modifies no module-level state.
C5_Original ==
  /\ uses = {}
  /\ last.fn = "fetch_data" => last.out.globals = last.pre

\* C5, amended: no function, class or assigned name of the file is used by
\* other code of the file; the only names bound in the file that its code
\* reads are imported ones: Dict, read by the annotation of def
\* process_user_data (line 14), and Optional, read by that of async def
\* fetch_data (line 19), both where annotations are evaluated at the
\* definition, and datetime, read by UserManager.__init__ when a caller
\* outside the file runs it.  fetch_data is read, hence called, by no code of
\* the file, and a run of it leaves the module's namespace as it was.
C5_OnlyImportsAreUsed ==
  /\ uses \subseteq
       {[by |-> [line |-> 14, at |-> "definition"], name |-> "Dict", binder |-> 6],
        [by |-> [line |-> 19, at |-> "definition"], name |-> "Optional", binder |-> 6],
        [by |-> [line |-> 26, at |-> "call"], name |-> "datetime", binder |-> 7]}
  /\ \A u \in uses : \E s \in Range(Module) : s.line = u.binder /\ s.kind = "import"
  /\ last.fn = "fetch_data" => last.out.globals = last.pre

C5_Witness ==
  /\ \E u \in uses : u.name = "Dict"
  /\ \E u \in uses : u.name = "datetime"
  /\ status = "error"
  /\ last.fn = "fetch_data"

\* C6 as stated: an instance of either class carries exactly the attributes
\* name, email and the creation timestamp.
C6_Original ==
  obj.cls \in {"UserManager", "DatabaseConnection"} =>
    DOMAIN obj.attrs = {"name", "email", "created_at"}

\* C6, amended: an instance of UserManager carries exactly the attributes
\* name, email and created_at; an instance of DatabaseConnection carries no
\* instance attribute, also after connect.
C6_InstanceAttributes ==
  /\ obj.cls = "UserManager" => DOMAIN obj.attrs = {"name", "email", "created_at"}
  /\ obj.cls = "DatabaseConnection" => DOMAIN obj.attrs = {}

C6_Witness == obj.cls = "DatabaseConnection" /\ last.fn = "connect"

\* C7: every run of process_user_data ends in NameError on requests and every
\* run of the coroutine of fetch_data ends in NameError on aiohttp, neither
\* returns a value, and both leave the module's namespace as it was.
C7_UndefinedClients ==
  /\ last.fn = "process_user_data" =>
       /\ last.out.kind = "raise"
       /\ last.out.exc = "NameError"
       /\ last.out.name = "requests"
       /\ last.out.globals = last.pre
  /\ last.fn = "fetch_data" =>
       /\ last.out.kind = "raise"
       /\ last.out.exc = "NameError"
       /\ last.out.name = "aiohttp"
       /\ last.out.globals = last.pre
  /\ coro.state # "finished"

C7_Witness ==
  /\ last.fn = "process_user_data"
  /\ last.user_id = 42
  /\ coro.state = "failed"

\* The sum of f over the finite set S.
RECURSIVE SumOver(_, _)
SumOver(S, f) ==
  IF S = {} THEN 0
  ELSE LET x == CHOOSE y \in S : TRUE IN f[x] + SumOver(S \ {x}, f)

\* Every price times the number of items that have it.
TotalByPrice(items) ==
  SumOver(Prices,
          [v \in Prices |-> v * Cardinality({i \in DOMAIN items : items[i].price = v})])

\* C8: calculate_total returns the sum of the prices of all the items, each
\* item counted once (0 for no items), and leaves the items as they were.
C8_CalculateTotal ==
  last.fn = "calculate_total" =>
    /\ last.out.kind = "return"
    /\ last.out.num = TotalByPrice(last.items)
    /\ last.items = <<>> => last.out.num = 0
    /\ last.heap = last.items

C8_Witness ==
  /\ last.fn = "calculate_total"
  /\ Len(last.items) = 2
  /\ last.items[1].price = 2
  /\ last.items[2].price = 2
  /\ last.out.num = 4

\* C9: the module's top-level statements do not run to completion: execution
\* stops with NameError on name at the assignment of template (line 48), with
\* welcome_message and api_url bound, and MAX_USERS, api_version, user_ids,
\* email_pattern, phone_pattern and config are never bound.
C9_StopsAtTemplate ==
  /\ status # "done"
  /\ status = "running" => Module[pc].line <= 48
  /\ status = "error" =>
       /\ error = [exc |-> "NameError", name |-> "name", line |-> 48]
       /\ Module[pc] = assign_template
       /\ {"welcome_message", "api_url"} \subseteq DOMAIN globals
  /\ DOMAIN globals \cap {"MAX_USERS", "api_version", "user_ids", "email_pattern",
                          "phone_pattern", "config"} = {}

C9_Witness == status = "error" /\ error.line = 48
====
